---- MODULE Spec2Model ----
(***************************************************************************)
(* Model of pysagredo.llm (src/pysagredo/llm/__init__.py): the chat        *)
(* transcript (ChatMessage, ChatState), its rendering, the prompt          *)
(* templates, the retrying oracle client (generate_message, complete_chat) *)
(* and, around them, the proof-search controller and the checker client    *)
(* (ProofSearch.run_code, exercised by src/tests/test_gym.py).             *)
(*                                                                         *)
(* A text is a sequence of tokens (strings); concatenation of texts is \o. *)
(* The code fence of the prompts is written ~~~ in the tokens below.       *)
(***************************************************************************)
EXTENDS Integers, Sequences, FiniteSets, TLC

\* ------------------------------------------------------------------ bounds
\* Saturation point of the per-call request counter (the code has no ceiling).
MaxTries == 3
\* The controller's maximum step count.
MaxSteps == 2
\* Longest transcript drawn for rendering.
MaxLen == 3
\* Number of run_code calls on one ProofSearch instance.
MaxCalls == 3

VARIABLES
    \* oracle client and its caller
    chat,       \* the caller's ChatState object, passed as chat_state
    orig,       \* ghost: the messages chat held when complete_chat was entered
    model,      \* the model keyword argument of the call in progress
    pc,         \* position inside complete_chat / generate_message
    tries,      \* requests issued by the call in progress (saturating)
    lastResp,   \* class of the last response of the call in progress
    sawFatal,   \* ghost: a non-retryable response was received in this call
    sent,       \* ghost: the set of distinct payloads posted in this call
    ret,        \* the text generate_message returned
    result,     \* the ChatState complete_chat returned
    err,        \* the exception that escaped complete_chat
    \* proof-search controller
    ctl, steps, code, feedback, reason,
    \* rendering
    rT, rOut, rPrev, rState,
    \* checker client
    gEnvs, gOut, gLast

clientVars == <<chat, orig, model, pc, tries, lastResp, sawFatal, sent, ret, result, err>>
ctlVars    == <<ctl, steps, code, feedback, reason>>
renderVars == <<rT, rOut, rPrev, rState>>
gymVars    == <<gEnvs, gOut, gLast>>
vars       == <<clientVars, ctlVars, renderVars, gymVars>>

\* ------------------------------------------------------------ text helpers
None == "None"
NoText == <<>>

RECURSIVE Join(_, _)
\* sep.join(parts): the parts in order, sep between consecutive parts only.
Join(parts, sep) ==
    IF parts = <<>> THEN <<>>
    ELSE IF Len(parts) = 1 THEN parts[1]
    ELSE parts[1] \o sep \o Join(Tail(parts), sep)

\* str.upper() on the role strings.
Upper(s) ==
    CASE s = "system"    -> "SYSTEM"
      [] s = "user"      -> "USER"
      [] s = "assistant" -> "ASSISTANT"
      [] OTHER           -> s

IsPrefix(s, t) == Len(s) <= Len(t) /\ SubSeq(t, 1, Len(s)) = s
\* s occurs in t as a contiguous block.
Contains(t, s) == \E i \in 0..(Len(t) - Len(s)) : SubSeq(t, i + 1, i + Len(s)) = s

\* ------------------------------------------------------ prompt templates
SYSTEM_MESSAGE == <<"SYSTEM_MESSAGE">>
PROOF_INSTRUCTION == <<"PROOF_INSTRUCTION">>
AUTOFORMALIZE_PROOF_INSTRUCTION == <<"AUTOFORMALIZE_PROOF_INSTRUCTION">>

f2f_initial_prompt(c) ==
    <<"I am going to show you an incomplete proof ... Here is my Lean code so far: \n", "~~~lean\n">>
        \o c \o <<"\n~~~\n">> \o PROOF_INSTRUCTION

autoformalize_proof_initial_prompt(nl_statement, nl_proof, c) ==
    <<"I am going to show you a natural language proof of a theorem ...\n", "begin{theorem}\n">>
        \o nl_statement \o <<"\nend{theorem}\n">> \o nl_proof
        \o <<"\n\nBelow is the Lean code I would like you to complete.\n", "~~~lean\n">>
        \o c \o <<"\n~~~\n">> \o AUTOFORMALIZE_PROOF_INSTRUCTION

autoformalize_statement_and_proof_initial_prompt(nl_statement, nl_proof, c) ==
    <<"I am going to show you a natural language theorem statement ...\n", "begin{theorem}\n">>
        \o nl_statement \o <<"\nend{theorem}\n">> \o nl_proof
        \o <<"\n\nHere is the code template for your formalization. \n", "~~~lean\n">>
        \o c \o <<"\n~~~\n">> \o AUTOFORMALIZE_PROOF_INSTRUCTION \o <<"\n">>

\* A follow-up prompt that forgets to embed the goal state.
prove_unsolved_goals_prompt_dropping(goal_state) ==
    <<"Here is the new goal state:\n", "~~~lean\n">> \o <<"\n~~~\n">> \o PROOF_INSTRUCTION

prove_unsolved_goals_prompt(goal_state) ==
    <<"Here is the new goal state:\n", "~~~lean\n">>
        \o goal_state \o <<"\n~~~\n">> \o PROOF_INSTRUCTION

sorry_prompt == <<"There is a sorry in your code. ... do not add any new tactic steps.">>

\* ------------------------------------------------------------- transcript
Roles == {"system", "user", "assistant"}

ChatMessage(r, c) == [role |-> r, content |-> c]

ChatState(msgs) == [messages |-> msgs]

NoResult == ChatState(<<>>)

\* ChatMessage.__str__
ChatMessage_str(m) == <<">>>", Upper(m.role), "\n">> \o m.content

\* ChatState.__str__ joining the messages last to first.
ChatState_str_reversed(cs) ==
    Join([i \in 1..Len(cs.messages) |->
            ChatMessage_str(cs.messages[Len(cs.messages) + 1 - i])], <<"\n">>)

\* ChatState.__str__
ChatState_str(cs) ==
    Join([i \in 1..Len(cs.messages) |-> ChatMessage_str(cs.messages[i])], <<"\n">>)

\* chat_state.dict()["messages"]: every message as a role/content dict, in order.
ChatStateDictMessages(cs) ==
    [i \in 1..Len(cs.messages) |->
        [role |-> cs.messages[i].role, content |-> cs.messages[i].content]]

\* ------------------------------------------------------- oracle service
\* Model ids a caller may pass; tiktoken.encoding_for_model knows the first only.
Models == {"gpt-4", "custom-model"}

\* tiktoken.encoding_for_model(model) returns an encoding (else raises KeyError).
EncodingKnown(m) == m = "gpt-4"

\* Completion texts the service may answer with.
Completions ==
    { <<"plan", "~~~lean\n", "theorem t : p := by", "simp", "\n~~~">>,
      <<"plan", "~~~lean\n", "theorem t : p := by", "sorry", "\n~~~">>,
      <<"plan without code">> }

\* Non-200 answers: rate limiting / transient server fault, and the rest
\* (malformed request, authentication failure).
FailureClasses == {"retryable", "fatal"}

Sat(n) == IF n >= MaxTries THEN MaxTries ELSE n

\* complete_chat's return value with the completion put first.
complete_chat_result_prepending(cs, response_text) ==
    ChatState(<<ChatMessage("assistant", response_text)>> \o cs.messages)

\* complete_chat's return value:
\* ChatState(messages=[*chat_state.messages, ChatMessage(role="assistant", ...)])
complete_chat_result(cs, response_text) ==
    ChatState(cs.messages \o <<ChatMessage("assistant", response_text)>>)

\* The decorator's give-up test: on_exception(expo, HTTPError) is given neither
\* max_tries nor max_time nor giveup, so it never gives up.
GiveUp(n) == FALSE

\* complete_chat(chat_state, **kwargs) is entered: generate_message is about to
\* issue its first request.
CallOracle ==
    /\ ctl = "AWAITING_ORACLE" /\ pc = "idle" /\ steps < MaxSteps
    /\ \E m \in Models : model' = m
    /\ pc' = "post"
    /\ orig' = chat.messages
    /\ tries' = 0 /\ lastResp' = None /\ sawFatal' = FALSE /\ sent' = {}
    /\ ret' = NoText /\ result' = NoResult /\ err' = None
    /\ UNCHANGED <<renderVars, gymVars, chat, ctlVars>>

\* requests.post answers 200: generate_message returns the completion text and
\* complete_chat returns the extended transcript.
PostOk ==
    /\ pc = "post"
    /\ \E c \in Completions :
        /\ ret' = c
        /\ result' = complete_chat_result(chat, c)
    /\ sent' = sent \cup {ChatStateDictMessages(chat)}
    /\ tries' = Sat(tries + 1)
    /\ lastResp' = "ok"
    /\ pc' = "returned"
    /\ UNCHANGED <<renderVars, gymVars, chat, orig, model, sawFatal, err, ctlVars>>

\* requests.post answers with a status other than 200.
PostFail ==
    /\ pc = "post"
    /\ \E k \in FailureClasses :
        /\ lastResp' = k
        /\ sawFatal' = (sawFatal \/ k = "fatal")
    /\ sent' = sent \cup {ChatStateDictMessages(chat)}
    /\ tries' = Sat(tries + 1)
    /\ pc' = "report"
    /\ UNCHANGED <<renderVars, gymVars, chat, orig, model, ret, result, err, ctlVars>>

\* requests.post itself raises (no answer: ConnectionError, not an HTTPError),
\* which the decorator does not catch.
PostRaises ==
    /\ pc = "post"
    /\ sent' = sent \cup {ChatStateDictMessages(chat)}
    /\ tries' = Sat(tries + 1)
    /\ lastResp' = None
    /\ err' = "ConnectionError"
    /\ pc' = "raised"
    /\ UNCHANGED <<renderVars, gymVars, chat, orig, model, sawFatal, ret, result, ctlVars>>

\* The body of `if r.status_code != 200`: print the transcript, estimate its
\* token count, print the status, raise HTTPError. encoding_for_model raises
\* KeyError for a model id it does not know, and that escapes the decorator.
\* Otherwise HTTPError is raised for every status other than 200, whatever its
\* class, and the decorator decides between giving up and waiting.
Report ==
    /\ pc = "report"
    /\ IF ~EncodingKnown(model)
         THEN pc' = "raised" /\ err' = "KeyError"
         ELSE IF GiveUp(tries)
                THEN pc' = "raised" /\ err' = "HTTPError"
                ELSE pc' = "sleep" /\ err' = err
    /\ UNCHANGED <<renderVars, gymVars, chat, orig, model, tries, lastResp, sawFatal, sent, ret, result, ctlVars>>

\* A retry that records the failed attempt in the transcript before calling again.
RetryRecording ==
    /\ pc = "sleep"
    /\ pc' = "post"
    /\ chat' = ChatState(chat.messages \o <<ChatMessage("assistant", <<"retrying">>)>>)
    /\ UNCHANGED <<renderVars, gymVars, orig, model, tries, lastResp, sawFatal, sent, ret, result, err, ctlVars>>

\* The decorator's wait is over: generate_message is called again with the
\* same arguments.
Retry ==
    /\ pc = "sleep"
    /\ pc' = "post"
    /\ UNCHANGED <<renderVars, gymVars, chat, orig, model, tries, lastResp, sawFatal, sent, ret, result, err, ctlVars>>

\* -------------------------------------------------- proof-search controller
Severities == {"error", "warning", "info"}

\* One diagnostic message per severity.
FbMessage(sev) ==
    [severity |-> sev,
     data |-> CASE sev = "error"   -> "type mismatch"
                [] sev = "warning" -> "declaration uses sorry"
                [] OTHER           -> "info"]

SeqsUpTo(S, n) == UNION {[1..k -> S] : k \in 0..n}

\* The message lists of the checker feedbacks drawn for the controller: none,
\* one of each severity, and mixes with the error first, last or repeated.
FbMessageLists ==
    { <<>> }
    \cup { <<FbMessage(sev)>> : sev \in Severities }
    \cup { <<FbMessage("warning"), FbMessage("error")>>,
           <<FbMessage("error"), FbMessage("info")>>,
           <<FbMessage("error"), FbMessage("error")>>,
           <<FbMessage("info"), FbMessage("warning")>> }

\* The checker feedbacks drawn for the controller.
Feedbacks == [messages : FbMessageLists, sorries : {<<>>, <<"goal: 2 = 2">>}]

NoFeedback == [messages |-> <<>>, sorries |-> <<>>]

HasError(fb) == \E i \in 1..Len(fb.messages) : fb.messages[i].severity = "error"

RECURSIVE ErrorData(_)
\* The data of the error-severity messages, in order.
ErrorData(msgs) ==
    IF msgs = <<>> THEN <<>>
    ELSE (IF Head(msgs).severity = "error" THEN <<Head(msgs).data>> ELSE <<>>)
            \o ErrorData(Tail(msgs))

\* The first fenced code block of a completion, as a sequence of at most one
\* block: empty when the completion holds none.
ExtractCode(text) ==
    LET opens == {i \in 1..Len(text) : text[i] = "~~~lean\n"} IN
    IF opens = {} THEN <<>>
    ELSE LET i == CHOOSE k \in opens : \A l \in opens : k <= l
             closes == {j \in (i + 1)..Len(text) : text[j] = "\n~~~"} IN
         IF closes = {} THEN <<>>
         ELSE LET j == CHOOSE k \in closes : \A l \in closes : k <= l
              IN <<SubSeq(text, i + 1, j - 1)>>

\* The incomplete-proof placeholder occurs in the code.
HasSorry(c) == c # <<>> /\ \E i \in 1..Len(c[1]) : c[1][i] = "sorry"

SeedCodes == {<<"theorem t : p := by">>}
NlStatement == <<"statement">>
NlProof == <<"proof">>

InitialPrompts ==
    { f2f_initial_prompt(c) : c \in SeedCodes }
    \cup { autoformalize_proof_initial_prompt(NlStatement, NlProof, c) : c \in SeedCodes }
    \cup { autoformalize_statement_and_proof_initial_prompt(NlStatement, NlProof, c) : c \in SeedCodes }

AppendUser(cs, content) == ChatState(cs.messages \o <<ChatMessage("user", content)>>)

\* INIT: the seed system+user pair; immediately AWAITING_ORACLE.
Start ==
    /\ ctl = "INIT"
    /\ \E p \in InitialPrompts :
        chat' = ChatState(<<ChatMessage("system", SYSTEM_MESSAGE), ChatMessage("user", p)>>)
    /\ ctl' = "AWAITING_ORACLE"
    /\ UNCHANGED <<renderVars, gymVars, orig, model, pc, tries, lastResp, sawFatal, sent, ret, result, err,
                   steps, code, feedback, reason>>

\* AWAITING_ORACLE, the oracle call returned: the completion becomes the
\* assistant turn and its first code block is extracted. Without a code block
\* the controller re-prompts, which counts as a step.
OracleDone ==
    /\ ctl = "AWAITING_ORACLE" /\ pc = "returned"
    /\ pc' = "idle"
    /\ code' = ExtractCode(ret)
    /\ IF ExtractCode(ret) = <<>>
         THEN /\ chat' = AppendUser(result, <<"NoCodeBlockFound: please answer with a lean code block">>)
              /\ steps' = steps + 1
              /\ ctl' = ctl
         ELSE /\ chat' = result
              /\ steps' = steps
              /\ ctl' = "AWAITING_CHECK"
    /\ UNCHANGED <<renderVars, gymVars, orig, model, tries, lastResp, sawFatal, sent, ret, result, err,
                   feedback, reason>>

\* AWAITING_ORACLE, the oracle call failed: FAILED.
OracleFailed ==
    /\ ctl = "AWAITING_ORACLE" /\ pc = "raised"
    /\ pc' = "idle"
    /\ ctl' = "FAILED"
    /\ reason' = err
    /\ UNCHANGED <<renderVars, gymVars, chat, orig, model, tries, lastResp, sawFatal, sent, ret, result, err,
                   steps, code, feedback>>

\* AWAITING_CHECK: the checker's feedback on the extracted code decides.
Check ==
    /\ ctl = "AWAITING_CHECK"
    /\ \E fb \in Feedbacks :
        /\ feedback' = fb
        /\ IF HasError(fb)
             THEN /\ chat' = AppendUser(chat, prove_unsolved_goals_prompt(ErrorData(fb.messages)))
                  /\ ctl' = "AWAITING_ORACLE"
             ELSE IF HasSorry(code)
             THEN /\ chat' = AppendUser(chat, sorry_prompt)
                  /\ ctl' = "AWAITING_ORACLE"
             ELSE IF fb.sorries = <<>>
             THEN /\ chat' = chat
                  /\ ctl' = "COMPLETE"
             ELSE /\ chat' = AppendUser(chat, prove_unsolved_goals_prompt(fb.sorries))
                  /\ ctl' = "AWAITING_ORACLE"
    /\ steps' = steps + 1
    /\ UNCHANGED <<renderVars, gymVars, orig, model, pc, tries, lastResp, sawFatal, sent, ret, result, err,
                   code, reason>>

\* The maximum step count is reached at the head of the loop: FAILED.
StepLimit ==
    /\ ctl = "AWAITING_ORACLE" /\ pc = "idle" /\ steps >= MaxSteps
    /\ ctl' = "FAILED"
    /\ reason' = "StepLimitExceeded"
    /\ UNCHANGED <<renderVars, gymVars, clientVars, steps, code, feedback>>

\* External cancellation, between steps only.
Cancel ==
    /\ \/ ctl = "AWAITING_ORACLE" /\ pc = "idle"
       \/ ctl = "AWAITING_CHECK"
    /\ ctl' = "FAILED"
    /\ reason' = "Cancelled"
    /\ UNCHANGED <<renderVars, gymVars, clientVars, steps, code, feedback>>

\* ------------------------------------------------ checker client values
\* The snippets test_run_code submits: a definition, a #check of rfl against a
\* definition, an example left open after `by`, and a false example by rfl.
Names == {"f", "g"}
Vals == {2, 37}
Snippets ==
    [kind : {"def", "check"}, name : Names, val : Vals]
    \cup {[kind |-> "example_by", name |-> "", val |-> 2],
          [kind |-> "example_rfl", name |-> "", val |-> 2]}

NoOutput == [messages |-> <<>>, sorries |-> <<>>, env |-> 0]
NoCall == [src |-> [kind |-> "none", name |-> "", val |-> 2], env |-> 0]

\* --------------------------------------------------------- specifications
RenderIdle == rT = ChatState(<<>>) /\ rOut = <<>> /\ rPrev = <<>> /\ rState = "idle"
GymIdle == gEnvs = <<>> /\ gOut = NoOutput /\ gLast = NoCall

ClientInit ==
    /\ chat = ChatState(<<>>) /\ orig = <<>> /\ model = None /\ pc = "idle"
    /\ tries = 0 /\ lastResp = None /\ sawFatal = FALSE /\ sent = {}
    /\ ret = NoText /\ result = NoResult /\ err = None

CtlInit ==
    /\ ctl = "INIT" /\ steps = 0 /\ code = <<>> /\ feedback = NoFeedback /\ reason = None

Init == ClientInit /\ CtlInit /\ RenderIdle /\ GymIdle

Next ==
    \/ Start \/ CallOracle \/ PostOk \/ PostFail \/ PostRaises \/ Report \/ Retry
    \/ OracleDone \/ OracleFailed \/ Check \/ StepLimit \/ Cancel

Spec == Init /\ [][Next]_vars

\* The client runs on a thread of its own and every wait of the decorator is
\* finite, so a step that is possible is eventually taken.
FairSpec == Init /\ [][Next]_vars /\ WF_vars(Next)

\* ---------------------------------------------------------------- rendering
Contents == {<<>>, <<"a">>, <<"b", "\n">>}
RenderMessages == {ChatMessage(r, c) : r \in Roles, c \in Contents}

\* str(chat_state) is taken.
RenderTranscript ==
    /\ rState \in {"drawn", "appended"}
    /\ rOut' = ChatState_str(rT)
    /\ rState' = IF rState = "appended" THEN "rerendered" ELSE "rendered"
    /\ UNCHANGED <<rT, rPrev, clientVars, ctlVars, gymVars>>

\* A message is appended to a rendered transcript; rPrev keeps the rendering
\* taken before the append.
AppendMessage ==
    /\ rState \in {"rendered", "rerendered"}
    /\ Len(rT.messages) < MaxLen
    /\ \E m \in RenderMessages : rT' = ChatState(rT.messages \o <<m>>)
    /\ rPrev' = rOut
    /\ rState' = "appended"
    /\ UNCHANGED <<rOut, clientVars, ctlVars, gymVars>>

RenderInit ==
    /\ ClientInit /\ CtlInit /\ GymIdle
    /\ rT \in {ChatState(ms) : ms \in SeqsUpTo(RenderMessages, MaxLen - 1)}
    /\ rOut = <<>> /\ rPrev = <<>> /\ rState = "drawn"

RenderNext == RenderTranscript \/ AppendMessage

RenderSpec == RenderInit /\ [][RenderNext]_vars

\* ----------------------------------------------------------- checker client
\* The environment a snippet is elaborated on when no handle is honoured.
BaseEnvFresh(h) == {}

\* The environment a snippet is elaborated on when the checker keeps one
\* running environment for calls without a handle.
BaseEnvPersistent(h) ==
    IF h = 0 THEN (IF gEnvs = <<>> THEN {} ELSE gEnvs[Len(gEnvs)]) ELSE gEnvs[h]

\* The environment a snippet is elaborated on: fresh without a handle, the
\* final elaboration state of the call that returned the handle otherwise.
BaseEnv(h) == IF h = 0 THEN {} ELSE gEnvs[h]

Msg(sev, d) == [severity |-> sev, data |-> d]

\* The checker's elaboration of one snippet on an environment (a set of
\* name/value definitions): the final environment and the messages.
Elaborate(base, src) ==
    CASE src.kind = "def" ->
            IF \E d \in base : d.name = src.name
              THEN [env |-> base, messages |-> <<Msg("error", "already declared")>>]
              ELSE [env |-> base \cup {[name |-> src.name, val |-> src.val]},
                    messages |-> <<>>]
      [] src.kind = "check" ->
            IF ~\E d \in base : d.name = src.name
              THEN [env |-> base, messages |-> <<Msg("error", "unknown identifier")>>]
            ELSE IF [name |-> src.name, val |-> src.val] \notin base
              THEN [env |-> base, messages |-> <<Msg("error", "type mismatch")>>]
              ELSE [env |-> base, messages |-> <<Msg("info", "rfl")>>]
      [] src.kind = "example_by" ->
            [env |-> base, messages |-> <<Msg("error", "unsolved goals")>>]
      [] OTHER ->
            [env |-> base, messages |-> <<Msg("error", "type mismatch")>>]

\* proofsearch.run_code(source, env=handle): handle 0 stands for no env.
RunCode ==
    /\ Len(gEnvs) < MaxCalls
    /\ \E src \in Snippets, h \in 0..Len(gEnvs) :
        LET el == Elaborate(BaseEnv(h), src) IN
        /\ gEnvs' = Append(gEnvs, el.env)
        /\ gOut' = [messages |-> el.messages, sorries |-> <<>>, env |-> Len(gEnvs) + 1]
        /\ gLast' = [src |-> src, env |-> h]
    /\ UNCHANGED <<clientVars, ctlVars, renderVars>>

\* A new ProofSearch instance is constructed.
NewProofSearch ==
    /\ gEnvs # <<>>
    /\ gEnvs' = <<>> /\ gOut' = NoOutput /\ gLast' = NoCall
    /\ UNCHANGED <<clientVars, ctlVars, renderVars>>

GymInit == ClientInit /\ CtlInit /\ RenderIdle /\ GymIdle

GymNext == RunCode \/ NewProofSearch

GymSpec == GymInit /\ [][GymNext]_vars

\* ------------------------------------------------- claims: oracle client
InCall == pc \in {"post", "report", "sleep", "returned", "raised"}

\* C1: a retryable failure is absorbed inside the client: a call never ends by
\* raising to its caller when the service's last answer was a retryable failure.
C1_RetryableAbsorbed == pc = "raised" => lastResp # "retryable"

\* C2: retrying is bounded: a call whose requests are all answered with a
\* retryable failure does not retry forever, so every call eventually returns
\* or fails (or has received an answer of another class).
C2_CallTerminates == (pc = "post") ~> (pc \in {"returned", "raised"} \/ sawFatal)

\* C3: after a non-retryable answer no further request is made for the call: the
\* call is reporting the failure or has failed.
C3_NoRetryAfterFatal == lastResp = "fatal" => pc \in {"report", "raised", "idle"}

\* C4: the transcript is append-only: complete_chat returns the caller's
\* messages followed by one assistant message holding the completion, every
\* step keeps the earlier messages a prefix, and a leading system message
\* stays first and unchanged.
C4_AppendOnly ==
    [][ /\ IsPrefix(chat.messages, chat'.messages)
        /\ (pc = "post" /\ pc' = "returned") =>
              result'.messages = chat.messages \o <<[role |-> "assistant", content |-> ret']>>
        /\ (pc = "returned" /\ pc' = "idle") => IsPrefix(result.messages, chat'.messages)
        /\ (chat.messages # <<>> /\ chat.messages[1].role = "system") =>
              chat'.messages[1] = [role |-> "system", content |-> SYSTEM_MESSAGE]
      ]_vars

\* C4 witness: a second complete_chat call has returned on a transcript that
\* starts with the system message.
C4_Witness ==
    /\ pc = "returned" /\ Len(orig) >= 4
    /\ result.messages[1].role = "system" /\ Len(result.messages) = Len(orig) + 1

\* C6: reporting is observability only: the error that ends a call is never
\* one raised by the reporting step.
C6_ReportingNeverDecides == pc = "raised" => err # "KeyError"

\* C9: failures and retries never alter the transcript: during and after a
\* call the caller's transcript holds the messages it held at entry, every
\* attempt posted that same message list, and a returned result is those
\* messages plus exactly one assistant message.
C9_RetriesLeaveTranscript ==
    /\ InCall => /\ chat.messages = orig
                 /\ sent \subseteq {orig}
                 /\ (tries > 0 => sent = {orig})
    /\ pc = "returned" =>
          /\ Len(result.messages) = Len(orig) + 1
          /\ SubSeq(result.messages, 1, Len(orig)) = orig
          /\ result.messages[Len(orig) + 1] = [role |-> "assistant", content |-> ret]

\* C9 witness: a call returned after at least two failed attempts.
C9_Witness == pc = "returned" /\ tries >= 3 /\ Len(orig) >= 2

Rendered == rState \in {"rendered", "rerendered"}

\* The role tag the rendering writes before a message's content.
C7_Tag(m) ==
    <<">>>",
      CASE m.role = "system" -> "SYSTEM" [] m.role = "user" -> "USER" [] OTHER -> "ASSISTANT",
      "\n">>

RECURSIVE C7_Concat(_)
C7_Concat(ms) ==
    IF ms = <<>> THEN <<>>
    ELSE C7_Tag(Head(ms)) \o Head(ms).content \o C7_Concat(Tail(ms))

RECURSIVE C7_Joined(_)
C7_Joined(ms) ==
    IF ms = <<>> THEN <<>>
    ELSE C7_Tag(Head(ms)) \o Head(ms).content
            \o (IF Tail(ms) = <<>> THEN <<>> ELSE <<"\n">> \o C7_Joined(Tail(ms)))

\* C7 as stated: the rendered text is the plain concatenation, in message
\* order, of each message's role tag followed by its content.
C7_PlainConcatenation == Rendered => rOut = C7_Concat(rT.messages)

\* C7 as amended: the rendered text is, in message order, each message's role
\* tag followed by its content, with one newline between consecutive
\* messages; rendering after appending M extends the earlier rendering and
\* ends with M's tag and content, so M's content comes after every earlier one.
C7_RenderJoined ==
    /\ Rendered => rOut = C7_Joined(rT.messages)
    /\ rState = "rerendered" =>
          LET M == rT.messages[Len(rT.messages)] IN
          /\ IsPrefix(rPrev, rOut)
          /\ rOut = rPrev \o (IF Len(rT.messages) = 1 THEN <<>> ELSE <<"\n">>)
                          \o C7_Tag(M) \o M.content

\* C7 witness: a transcript of three messages was rendered again after an
\* append, the earlier rendering being non-empty.
C7_Witness ==
    /\ rState = "rerendered" /\ Len(rT.messages) = 3 /\ rPrev # <<>>
    /\ rT.messages[3].content = <<"b", "\n">> /\ rT.messages[1].role = "system"
    /\ Len(rOut) > Len(rPrev)

\* -------------------------------------------------- claims: checker client
NoErrorIn(msgs) == \A i \in 1..Len(msgs) : msgs[i].severity # "error"

\* C8: a call given the env handle of an earlier call is checked on top of
\* that call's final state: the returned state keeps every definition of it,
\* and a #check that agrees with one of them yields no error message.
C8_Incremental ==
    (gLast.env # 0) =>
        /\ gEnvs[gLast.env] \subseteq gEnvs[gOut.env]
        /\ (gLast.src.kind = "check"
              /\ [name |-> gLast.src.name, val |-> gLast.src.val] \in gEnvs[gLast.env])
            => NoErrorIn(gOut.messages)

\* C8 witness: `#check (rfl : f = 37)` ran on the handle of a call that
\* defined f := 37, after an earlier call had defined f := 2.
C8_Witness ==
    /\ Len(gEnvs) = 3 /\ gLast.env = 2
    /\ gLast.src = [kind |-> "check", name |-> "f", val |-> 37]
    /\ gEnvs[1] = {[name |-> "f", val |-> 2]}
    /\ gEnvs[2] = {[name |-> "f", val |-> 37]}
    /\ NoErrorIn(gOut.messages)

\* C10: a call without env is checked in a fresh environment: a definition is
\* accepted without error whatever earlier calls defined, a #check finds no
\* earlier definition, and the env returned holds only the call's own snippet.
C10_FreshWithoutEnv ==
    (gLast.env = 0 /\ gLast.src.kind # "none") =>
        /\ gLast.src.kind = "def" =>
              /\ NoErrorIn(gOut.messages)
              /\ gEnvs[gOut.env] = {[name |-> gLast.src.name, val |-> gLast.src.val]}
        /\ gLast.src.kind = "check" => ~NoErrorIn(gOut.messages)
        /\ gLast.src.kind # "def" => gEnvs[gOut.env] = {}

\* C10 witness: after a call defined f := 2, a call without env defined
\* f := 37 without error.
C10_Witness ==
    /\ Len(gEnvs) >= 2 /\ gLast.env = 0
    /\ gLast.src = [kind |-> "def", name |-> "f", val |-> 37]
    /\ [name |-> "f", val |-> 2] \in gEnvs[1]
    /\ gOut.messages = <<>>

====
